---- MODULE Spec2Model ----
(***************************************************************************)
(* A model of emirecorder's Recorder (src/src/emirecorder/recording/       *)
(* recorder.py): record() calls running concurrently on one event loop,    *)
(* the lock-guarded read-modify-write of the used-port set in the store,   *)
(* the stream runner, and the detached watcher tasks that free the ports.  *)
(* Every await of the code is a separate step of the task that makes it.   *)
(***************************************************************************)
EXTENDS Integers, Sequences, FiniteSets, TLC

\* ------------------------------------------------------------------ bounds

NumRequests == 2
MaxPort == 2
MaxEvent == 2
MaxSchedules == 2
MaxTime == 3
MaxInstances == 3

Requests == 1..NumRequests
PortUniverse == 1..MaxPort
Events == 1..MaxEvent
Times == 0..MaxTime

\* ------------------------------------------------------------------ values

\* The value of the local `port` of record() before line 184 binds it.
NoPort == 0

\* A task of the event loop: the record() call of request r, or the watcher
\* task that record() of request r created.
RecordTask(r) == <<"record", r>>
WatchTask(r) == <<"watch", r>>
Tasks == {RecordTask(r) : r \in Requests} \cup {WatchTask(r) : r \in Requests}
NoTask == <<"none", 0>>
RequestOf(t) == t[2]

VARIABLES
    ports,      \* config.recorder.ports: the configured pool
    store,      \* the set of used ports held by the store
    lock,       \* the task holding the lock, or NoTask
    pc,         \* per task: the await it is suspended at
    used,       \* per task: the local `used` of _reserve_port / _free_port
    port,       \* per request: the local `port` of record()
    exc,        \* per task: the exception in flight ("" when none)
    result,     \* per request: what record() gave its caller ("" while running)
    stream,     \* per request: the stream made by the runner
    hist,       \* history, per request: how often its tasks acquired the lock
                \*   (acquires), read the store (reads), wrote an allocation
                \*   (allocated) or a release (released) to it, called
                \*   _free_port (frees) and called StreamRunner.run (runs)
    firstPick,  \* history: <<used, port>> of the first allocation, or <<>>
    lastFree,   \* history: <<port, used before>> of the last release written
                \*   with no allocation written since, or <<>>
    now,        \* the clock read by utcnow()
    call        \* the observed record() call of the resolver specification

mainVars == <<ports, store, lock, pc, used, port, exc, result, stream,
              hist, firstPick, lastFree>>
vars == <<ports, store, lock, pc, used, port, exc, result, stream,
          hist, firstPick, lastFree, now, call>>

\* ------------------------------------------------- resolving (pure functions)

\* config.recorder.window and config.recorder.timeout, in clock units.
Window == 1
Timeout == 2

Abs(x) == IF x < 0 THEN 0 - x ELSE x

\* The identifier strings the schedule service may return: str(UUID) is the
\* canonical (lower-case, hyphenated) spelling; the service may also spell
\* the same identifier otherwise.
IdStrings == [uuid : Events, canonical : BOOLEAN]

\* str(event) of line 59.
Str(uuid) == [uuid |-> uuid, canonical |-> TRUE]

TimeZones == {"UTC", "Etc/GMT-1", "Europe/Warsaw"}

\* utcoffset of a wall-clock time in a zone, in clock units of an hour. The
\* first two zones have a fixed offset; Europe/Warsaw is taken on the night
\* its clocks go forward: one hour ahead of UTC before 03:00, two from then
\* on (a wall-clock time the change skips keeps the earlier offset).
UtcOffset(timezone, local) ==
    IF timezone = "UTC" THEN 0
    ELSE IF timezone = "Etc/GMT-1" THEN 1
    ELSE IF local < 3 THEN 1 ELSE 2

\* instance.start.replace(tzinfo=timezone).astimezone(utczone()).replace(tzinfo=None)
ToUtc(local, timezone) == local - UtcOffset(timezone, local)

NoSchedule == [none |-> TRUE]
NoInstance == [none |-> TRUE]

\* Mutant: the window only looks ahead of the reference time.
GetTimeWindowAhead(reference) == <<reference, reference + Window + Window>>

\* Lines 44-52, _get_time_window.
GetTimeWindow(reference) == <<reference - Window, reference + Window>>

\* Mutant: the last matching schedule is taken, not the first.
RECURSIVE LastMatching(_, _)
LastMatching(event, schedules) ==
    IF schedules = <<>> THEN NoSchedule
    ELSE IF schedules[Len(schedules)].event.id = event
         THEN schedules[Len(schedules)]
         ELSE LastMatching(event, SubSeq(schedules, 1, Len(schedules) - 1))

\* next((schedule for schedule in schedules if schedule.event.id == event), None)
RECURSIVE FirstMatching(_, _)
FirstMatching(event, schedules) ==
    IF schedules = <<>> THEN NoSchedule
    ELSE IF Head(schedules).event.id = event THEN Head(schedules)
    ELSE FirstMatching(event, Tail(schedules))

GetSchedule(event, response) == FirstMatching(Str(event), response)

\* The key function _compare of _find_nearest_instance.
Compare(reference, event, instance) ==
    Abs(ToUtc(instance.start, event.timezone) - reference)

\* Mutant: a later item replaces the candidate also when its key is equal.
RECURSIVE MinByCompareLast(_, _, _, _)
MinByCompareLast(reference, event, best, rest) ==
    IF rest = <<>> THEN best
    ELSE IF Compare(reference, event, Head(rest)) <= Compare(reference, event, best)
         THEN MinByCompareLast(reference, event, Head(rest), Tail(rest))
         ELSE MinByCompareLast(reference, event, best, Tail(rest))

\* min(instances, key=_compare): the first item is the candidate, and a later
\* item replaces it only when its key is strictly smaller.
RECURSIVE MinByCompare(_, _, _, _)
MinByCompare(reference, event, best, rest) ==
    IF rest = <<>> THEN best
    ELSE IF Compare(reference, event, Head(rest)) < Compare(reference, event, best)
         THEN MinByCompare(reference, event, Head(rest), Tail(rest))
         ELSE MinByCompare(reference, event, best, Tail(rest))

FindNearestInstance(reference, event, instances) ==
    IF instances = <<>> THEN NoInstance
    ELSE MinByCompare(reference, event, Head(instances), Tail(instances))

\* Lines 177-180 of record(): the schedule, the instance and the error raised.
Resolve(event, reference, response) ==
    LET schedule == GetSchedule(event, response)
        instance == IF schedule = NoSchedule THEN NoInstance
                    ELSE FindNearestInstance(reference, schedule.event,
                                             schedule.instances)
    IN  [schedule |-> schedule,
         instance |-> instance,
         error |-> IF schedule = NoSchedule \/ instance = NoInstance
                   THEN "InstanceNotFoundError" ELSE ""]

\* What the schedule service may answer: up to n records.
SeqsUpTo(S, n) == UNION {[1..k -> S] : k \in 0..n}

Instance(id, start) == [id |-> id, start |-> start]

ScheduleRecords(instanceLists) ==
    {[event |-> [id |-> i, timezone |-> z], instances |-> l] :
        i \in IdStrings, z \in {"UTC"}, l \in instanceLists}

ShortInstanceLists == {<<>>, <<Instance(1, 0)>>, <<Instance(2, MaxTime)>>}

\* Every list of up to MaxInstances instances, numbered in list order, with
\* any wall-clock start times.
InstanceLists ==
    {[i \in 1..k |-> Instance(i, starts[i])] :
        k \in 0..MaxInstances, starts \in [1..MaxInstances -> Times]}

Responses == SeqsUpTo(ScheduleRecords(ShortInstanceLists), MaxSchedules)

\* The errors resolving can end with ("" when it succeeds), over every request
\* and every answer of the schedule service.
ResolveErrors ==
    {Resolve(event, reference, response).error :
        event \in Events, reference \in Times, response \in Responses}

\* The observed call before record() is entered.
NoCall ==
    [pc |-> "idle", event |-> 0, reference |-> 0, window |-> <<0, 0>>,
     response |-> <<>>, schedule |-> NoSchedule, instance |-> NoInstance,
     error |-> "", expires_at |-> 0]

\* ------------------------------------------------------- lock and store

\* Lock.__aenter__: granted only while no task holds the lock.
LockAcquire(t) == lock = NoTask /\ lock' = t

\* Lock.__aexit__.
LockRelease(t) == lock' = IF lock = t THEN NoTask ELSE lock

\* Store.get().
StoreGet == store

\* Store.set(value).
StoreSet(value) == store' = value

\* ------------------------------------------------------------ history

NoHistory ==
    [acquires |-> 0, reads |-> 0, allocated |-> 0, released |-> 0,
     frees |-> 0, runs |-> 0]

Acquired(r) == hist' = [hist EXCEPT ![r].acquires = @ + 1]
Read(r) == hist' = [hist EXCEPT ![r].reads = @ + 1]
WroteAllocation(r) == hist' = [hist EXCEPT ![r].allocated = @ + 1]
WroteRelease(r) == hist' = [hist EXCEPT ![r].released = @ + 1]
CalledFree(r) == hist' = [hist EXCEPT ![r].frees = @ + 1]
CalledRun(r) == hist' = [hist EXCEPT ![r].runs = @ + 1]

\* ------------------------------------------------------------- record()

\* Mutant: the available ports are taken from every port number, not from
\* the configured pool.
AvailableOfAnyPort(usedPorts) == PortUniverse \ usedPorts

\* available = self._config.recorder.ports - used
Available(usedPorts) == ports \ usedPorts

\* available.pop(): set.pop() removes and returns an arbitrary element; the
\* elements it may return.
Pop(available) == available

\* used | {port}
WithPort(usedPorts, p) == usedPorts \cup {p}

\* Mutant: the port is not removed from the set that is written back.
WithoutPortKept(usedPorts, p) == usedPorts

\* used.remove(port), where port is in used.
WithoutPort(usedPorts, p) == usedPorts \ {p}

\* Lines 174-177: record() is called and awaits the schedule service.
Record(r) ==
    /\ pc[RecordTask(r)] = "idle"
    /\ pc' = [pc EXCEPT ![RecordTask(r)] = "get_schedule"]
    /\ UNCHANGED <<ports, store, lock, used, port, exc, result, stream,
                   hist, firstPick, lastFree, now, call>>

\* Mutant: the schedule is resolved inside the lock of _reserve_port, so a
\* call that finds no instance has taken the lock.
GetScheduleReturnsLocked(r) ==
    /\ pc[RecordTask(r)] = "get_schedule"
    /\ LockAcquire(RecordTask(r))
    /\ Acquired(r)
    /\ \E error \in ResolveErrors :
          IF error # ""
          THEN /\ pc' = [pc EXCEPT ![RecordTask(r)] = "reserve_exit"]
               /\ exc' = [exc EXCEPT ![RecordTask(r)] = error]
          ELSE /\ pc' = [pc EXCEPT ![RecordTask(r)] = "reserve_get"]
               /\ UNCHANGED exc
    /\ UNCHANGED <<ports, store, used, port, result, stream,
                   firstPick, lastFree, now, call>>

\* Lines 61-73 and 177-184: the schedule service answers; the schedule and the
\* nearest instance are found, or InstanceNotFoundError leaves record();
\* credentials and host are made and _reserve_port awaits the lock.
GetScheduleReturns(r) ==
    /\ pc[RecordTask(r)] = "get_schedule"
    /\ \E error \in ResolveErrors :
          IF error # ""
          THEN /\ pc' = [pc EXCEPT ![RecordTask(r)] = "raised"]
               /\ result' = [result EXCEPT ![r] = error]
          ELSE /\ pc' = [pc EXCEPT ![RecordTask(r)] = "reserve_enter"]
               /\ UNCHANGED result
    /\ UNCHANGED <<ports, store, lock, used, port, exc, stream,
                   hist, firstPick, lastFree, now, call>>

\* Mutant: _reserve_port reads and writes the store without taking the lock.
ReserveEnterUnlocked(r) ==
    /\ pc[RecordTask(r)] = "reserve_enter"
    /\ pc' = [pc EXCEPT ![RecordTask(r)] = "reserve_get"]
    /\ UNCHANGED <<ports, store, lock, used, port, exc, result, stream,
                   hist, firstPick, lastFree, now, call>>

\* Line 119: async with self._lock, entered.
ReserveEnter(r) ==
    /\ pc[RecordTask(r)] = "reserve_enter"
    /\ LockAcquire(RecordTask(r))
    /\ pc' = [pc EXCEPT ![RecordTask(r)] = "reserve_get"]
    /\ Acquired(r)
    /\ UNCHANGED <<ports, store, used, port, exc, result, stream,
                   firstPick, lastFree, now, call>>

\* Lines 120-128: the store answers get(); no port available raises
\* NoPortsAvailableError, otherwise a port is popped and set() is awaited.
ReserveGet(r) ==
    /\ pc[RecordTask(r)] = "reserve_get"
    /\ Read(r)
    /\ LET got == StoreGet
           available == Available(got)
       IN  IF available = {}
           THEN /\ exc' = [exc EXCEPT ![RecordTask(r)] = "NoPortsAvailableError"]
                /\ pc' = [pc EXCEPT ![RecordTask(r)] = "reserve_exit"]
                /\ UNCHANGED <<used, port, firstPick>>
           ELSE \E p \in Pop(available) :
                /\ used' = [used EXCEPT ![RecordTask(r)] = got]
                /\ port' = [port EXCEPT ![r] = p]
                /\ pc' = [pc EXCEPT ![RecordTask(r)] = "reserve_set"]
                /\ firstPick' = IF firstPick = <<>> THEN <<got, p>> ELSE firstPick
                /\ UNCHANGED exc
    /\ UNCHANGED <<ports, store, lock, result, stream, lastFree, now, call>>

\* Line 128: the store takes set(used | {port}).
ReserveSet(r) ==
    /\ pc[RecordTask(r)] = "reserve_set"
    /\ StoreSet(WithPort(used[RecordTask(r)], port[r]))
    /\ pc' = [pc EXCEPT ![RecordTask(r)] = "reserve_exit"]
    /\ WroteAllocation(r)
    /\ lastFree' = <<>>
    /\ UNCHANGED <<ports, lock, used, port, exc, result, stream,
                   firstPick, now, call>>

\* Mutant: _reserve_port takes and leaves the lock by hand, and leaves it only
\* on the path that returns a port.
ReserveExitKeepsLock(r) ==
    /\ pc[RecordTask(r)] = "reserve_exit"
    /\ used' = [used EXCEPT ![RecordTask(r)] = {}]
    /\ IF exc[RecordTask(r)] # ""
       THEN /\ pc' = [pc EXCEPT ![RecordTask(r)] = "raised"]
            /\ result' = [result EXCEPT ![r] = exc[RecordTask(r)]]
            /\ exc' = [exc EXCEPT ![RecordTask(r)] = ""]
            /\ UNCHANGED <<hist, lock>>
       ELSE /\ LockRelease(RecordTask(r))
            /\ pc' = [pc EXCEPT ![RecordTask(r)] = "run"]
            /\ CalledRun(r)
            /\ UNCHANGED <<result, exc>>
    /\ UNCHANGED <<ports, store, port, stream, firstPick, lastFree, now, call>>

\* Mutant: _reserve_port is called inside the try block of record(), so
\* NoPortsAvailableError reaches the handler, which calls _free_port.
ReserveExitInsideTry(r) ==
    /\ pc[RecordTask(r)] = "reserve_exit"
    /\ LockRelease(RecordTask(r))
    /\ used' = [used EXCEPT ![RecordTask(r)] = {}]
    /\ IF exc[RecordTask(r)] # ""
       THEN /\ pc' = [pc EXCEPT ![RecordTask(r)] = "free_enter"]
            /\ CalledFree(r)
       ELSE /\ pc' = [pc EXCEPT ![RecordTask(r)] = "run"]
            /\ CalledRun(r)
    /\ UNCHANGED <<ports, store, port, exc, result, stream, firstPick,
                   lastFree, now, call>>

\* Lines 119-130 and 184-187: the lock is left; NoPortsAvailableError leaves
\* record(), otherwise the port is returned and _run awaits StreamRunner.run.
ReserveExit(r) ==
    /\ pc[RecordTask(r)] = "reserve_exit"
    /\ LockRelease(RecordTask(r))
    /\ used' = [used EXCEPT ![RecordTask(r)] = {}]
    /\ IF exc[RecordTask(r)] # ""
       THEN /\ pc' = [pc EXCEPT ![RecordTask(r)] = "raised"]
            /\ result' = [result EXCEPT ![r] = exc[RecordTask(r)]]
            /\ exc' = [exc EXCEPT ![RecordTask(r)] = ""]
            /\ UNCHANGED hist
       ELSE /\ pc' = [pc EXCEPT ![RecordTask(r)] = "run"]
            /\ CalledRun(r)
            /\ UNCHANGED <<result, exc>>
    /\ UNCHANGED <<ports, store, port, stream, firstPick, lastFree, now, call>>

\* Lines 160-169 and 191: the runner started the stream; the watcher task is
\* created and record() returns its Response.
RunReturns(r) ==
    /\ pc[RecordTask(r)] = "run"
    /\ stream' = [stream EXCEPT ![r] = "running"]
    /\ pc' = [pc EXCEPT ![RecordTask(r)] = "returned", ![WatchTask(r)] = "wait"]
    /\ result' = [result EXCEPT ![r] = "Response"]
    /\ UNCHANGED <<ports, store, lock, used, port, exc,
                   hist, firstPick, lastFree, now, call>>

\* Mutant: the watcher is started before the runner's error is known, so the
\* handler of record() and the watcher both call _free_port(port).
RunFailsAfterWatch(r) ==
    /\ pc[RecordTask(r)] = "run"
    /\ exc' = [exc EXCEPT ![RecordTask(r)] = "RunnerError"]
    /\ stream' = [stream EXCEPT ![r] = "failed"]
    /\ pc' = [pc EXCEPT ![RecordTask(r)] = "free_enter",
                        ![WatchTask(r)] = "wait"]
    /\ CalledFree(r)
    /\ UNCHANGED <<ports, store, lock, used, port, result,
                   firstPick, lastFree, now, call>>

\* Mutant: record() has no handler, the runner's error leaves it at once.
RunFailsUnhandled(r) ==
    /\ pc[RecordTask(r)] = "run"
    /\ pc' = [pc EXCEPT ![RecordTask(r)] = "raised"]
    /\ result' = [result EXCEPT ![r] = "RunnerError"]
    /\ UNCHANGED <<ports, store, lock, used, port, exc, stream,
                   hist, firstPick, lastFree, now, call>>

\* Lines 160 and 192-193: StreamRunner.run raised; the handler of record()
\* calls _free_port(port), which awaits the lock.
RunFails(r) ==
    /\ pc[RecordTask(r)] = "run"
    /\ exc' = [exc EXCEPT ![RecordTask(r)] = "RunnerError"]
    /\ pc' = [pc EXCEPT ![RecordTask(r)] = "free_enter"]
    /\ CalledFree(r)
    /\ UNCHANGED <<ports, store, lock, used, port, result, stream,
                   firstPick, lastFree, now, call>>

\* The stream made by the runner ends, normally or with a failure.
StreamEnds(r) ==
    /\ stream[r] = "running"
    /\ \E how \in {"finished", "failed"} : stream' = [stream EXCEPT ![r] = how]
    /\ UNCHANGED <<ports, store, lock, pc, used, port, exc, result,
                   hist, firstPick, lastFree, now, call>>

\* Mutant: the watcher waits for the stream under a timeout and frees the port
\* when the timeout passes, whether or not the stream has ended.
WaitReturnsOnTimeout(r) ==
    /\ pc[WatchTask(r)] = "wait"
    /\ exc' = [exc EXCEPT ![WatchTask(r)] =
                  IF stream[r] = "failed" THEN "StreamError" ELSE ""]
    /\ pc' = [pc EXCEPT ![WatchTask(r)] = "free_enter"]
    /\ CalledFree(r)
    /\ UNCHANGED <<ports, store, lock, used, port, result, stream,
                   firstPick, lastFree, now, call>>

\* Mutant: _watch_stream frees the port after wait() returns, with no finally
\* clause: a failure of the stream ends the watcher at once.
WaitReturnsNoFinally(r) ==
    /\ pc[WatchTask(r)] = "wait"
    /\ stream[r] \in {"finished", "failed"}
    /\ IF stream[r] = "failed"
       THEN /\ exc' = [exc EXCEPT ![WatchTask(r)] = "StreamError"]
            /\ pc' = [pc EXCEPT ![WatchTask(r)] = "done"]
            /\ UNCHANGED hist
       ELSE /\ pc' = [pc EXCEPT ![WatchTask(r)] = "free_enter"]
            /\ CalledFree(r)
            /\ UNCHANGED exc
    /\ UNCHANGED <<ports, store, lock, used, port, result, stream,
                   firstPick, lastFree, now, call>>

\* Lines 143-146: stream.wait() returns or raises; the finally clause calls
\* _free_port(port), which awaits the lock.
WaitReturns(r) ==
    /\ pc[WatchTask(r)] = "wait"
    /\ stream[r] \in {"finished", "failed"}
    /\ exc' = [exc EXCEPT ![WatchTask(r)] =
                  IF stream[r] = "failed" THEN "StreamError" ELSE ""]
    /\ pc' = [pc EXCEPT ![WatchTask(r)] = "free_enter"]
    /\ CalledFree(r)
    /\ UNCHANGED <<ports, store, lock, used, port, result, stream,
                   firstPick, lastFree, now, call>>

\* Mutant: _free_port reads and writes the store without taking the lock.
FreeEnterUnlocked(t) ==
    /\ pc[t] = "free_enter"
    /\ pc' = [pc EXCEPT ![t] = "free_get"]
    /\ UNCHANGED <<ports, store, lock, used, port, exc, result, stream,
                   hist, firstPick, lastFree, now, call>>

\* Line 135: async with self._lock, entered.
FreeEnter(t) ==
    /\ pc[t] = "free_enter"
    /\ LockAcquire(t)
    /\ pc' = [pc EXCEPT ![t] = "free_get"]
    /\ Acquired(RequestOf(t))
    /\ UNCHANGED <<ports, store, used, port, exc, result, stream,
                   firstPick, lastFree, now, call>>

\* Mutant: _free_port drops the port with used.discard(port), which accepts
\* a port that is not in the set, and writes the set back.
FreeGetDiscards(t) ==
    /\ pc[t] = "free_get"
    /\ Read(RequestOf(t))
    /\ used' = [used EXCEPT ![t] = WithoutPort(StoreGet, port[RequestOf(t)])]
    /\ pc' = [pc EXCEPT ![t] = "free_set"]
    /\ UNCHANGED <<ports, store, lock, port, exc, result, stream,
                   firstPick, lastFree, now, call>>

\* Lines 136-138: the store answers get(); used.remove(port) raises KeyError
\* when the port is not in the set, otherwise set(used) is awaited.
FreeGet(t) ==
    /\ pc[t] = "free_get"
    /\ Read(RequestOf(t))
    /\ LET got == StoreGet
       IN  IF port[RequestOf(t)] \in got
           THEN /\ used' = [used EXCEPT ![t] = WithoutPort(got, port[RequestOf(t)])]
                /\ pc' = [pc EXCEPT ![t] = "free_set"]
                /\ UNCHANGED exc
           ELSE /\ exc' = [exc EXCEPT ![t] = "KeyError"]
                /\ pc' = [pc EXCEPT ![t] = "free_exit"]
                /\ UNCHANGED used
    /\ UNCHANGED <<ports, store, lock, port, result, stream,
                   firstPick, lastFree, now, call>>

\* Mutant: _free_port removes the port from its local set and never writes
\* the set back.
FreeSetNotWritten(t) ==
    /\ pc[t] = "free_set"
    /\ pc' = [pc EXCEPT ![t] = "free_exit"]
    /\ WroteRelease(RequestOf(t))
    /\ lastFree' = <<port[RequestOf(t)], store>>
    /\ UNCHANGED <<ports, store, lock, used, port, exc, result, stream,
                   firstPick, now, call>>

\* Line 138: the store takes set(used).
FreeSet(t) ==
    /\ pc[t] = "free_set"
    /\ StoreSet(used[t])
    /\ pc' = [pc EXCEPT ![t] = "free_exit"]
    /\ WroteRelease(RequestOf(t))
    /\ lastFree' = <<port[RequestOf(t)], store>>
    /\ UNCHANGED <<ports, lock, used, port, exc, result, stream,
                   firstPick, now, call>>

\* Mutant: the watcher hands the failure it ended with to the caller of
\* record().
FreeExitReported(t) ==
    /\ pc[t] = "free_exit"
    /\ LockRelease(t)
    /\ used' = [used EXCEPT ![t] = {}]
    /\ IF t[1] = "record"
       THEN /\ pc' = [pc EXCEPT ![t] = "raised"]
            /\ result' = [result EXCEPT ![RequestOf(t)] = exc[t]]
            /\ exc' = [exc EXCEPT ![t] = ""]
       ELSE /\ pc' = [pc EXCEPT ![t] = "done"]
            /\ result' = [result EXCEPT ![RequestOf(t)] =
                              IF exc[t] = "" THEN @ ELSE exc[t]]
            /\ UNCHANGED exc
    /\ UNCHANGED <<ports, store, port, stream, hist, firstPick, lastFree,
                   now, call>>

\* Lines 135-138, then 194 or 146: the lock is left; record() re-raises the
\* runner's error (or raises the KeyError of _free_port), the watcher ends.
FreeExit(t) ==
    /\ pc[t] = "free_exit"
    /\ LockRelease(t)
    /\ used' = [used EXCEPT ![t] = {}]
    /\ IF t[1] = "record"
       THEN /\ pc' = [pc EXCEPT ![t] = "raised"]
            /\ result' = [result EXCEPT ![RequestOf(t)] = exc[t]]
            /\ exc' = [exc EXCEPT ![t] = ""]
       ELSE /\ pc' = [pc EXCEPT ![t] = "done"]
            /\ UNCHANGED <<result, exc>>
    /\ UNCHANGED <<ports, store, port, stream, hist, firstPick, lastFree,
                   now, call>>

\* ------------------------------------------------------- specifications

InitTasks ==
    /\ lock = NoTask
    /\ pc = [t \in Tasks |-> IF t[1] = "record" THEN "idle" ELSE "none"]
    /\ used = [t \in Tasks |-> {}]
    /\ port = [r \in Requests |-> NoPort]
    /\ exc = [t \in Tasks |-> ""]
    /\ result = [r \in Requests |-> ""]
    /\ stream = [r \in Requests |-> "none"]
    /\ hist = [r \in Requests |-> NoHistory]
    /\ firstPick = <<>>
    /\ lastFree = <<>>
    /\ now = 0
    /\ call = NoCall

\* The service starts with any configured pool and any stored used set within it.
Init ==
    /\ ports \in SUBSET PortUniverse
    /\ store \in SUBSET ports
    /\ InitTasks

\* The service starts with an empty store.
InitFresh ==
    /\ ports \in SUBSET PortUniverse
    /\ store = {}
    /\ InitTasks

\* The service starts with an empty store and a pool of the first k ports.
InitLive ==
    /\ ports \in {1..k : k \in 0..MaxPort}
    /\ store = {}
    /\ InitTasks

Next ==
    \/ \E r \in Requests : Record(r)
    \/ \E r \in Requests : GetScheduleReturns(r)
    \/ \E r \in Requests : ReserveEnter(r)
    \/ \E r \in Requests : ReserveGet(r)
    \/ \E r \in Requests : ReserveSet(r)
    \/ \E r \in Requests : ReserveExit(r)
    \/ \E r \in Requests : RunReturns(r)
    \/ \E r \in Requests : RunFails(r)
    \/ \E r \in Requests : StreamEnds(r)
    \/ \E r \in Requests : WaitReturns(r)
    \/ \E t \in Tasks : FreeEnter(t)
    \/ \E t \in Tasks : FreeGet(t)
    \/ \E t \in Tasks : FreeSet(t)
    \/ \E t \in Tasks : FreeExit(t)

Spec == Init /\ [][Next]_vars

SpecFresh == InitFresh /\ [][Next]_vars

\* A step of the task that holds the lock: the store answers get() or set(),
\* or the lock is left. At most one task holds the lock.
HolderStep ==
    \/ \E r \in Requests : ReserveGet(r) \/ ReserveSet(r) \/ ReserveExit(r)
    \/ \E t \in Tasks : FreeGet(t) \/ FreeSet(t) \/ FreeExit(t)

\* The event loop resumes a watcher whose stream has ended, the store and the
\* lock answer the task that holds the lock, and a watcher that keeps asking
\* for the lock is granted it.
Fairness ==
    /\ WF_vars(HolderStep)
    /\ \A r \in Requests :
          /\ WF_vars(WaitReturns(r))
          /\ SF_vars(FreeEnter(WatchTask(r)))

SpecLive == InitLive /\ [][Next]_vars /\ Fairness

\* The two port operations under any caller: the requests call record(),
\* except that the first may instead be a task that calls _free_port(p)
\* directly, for any port p, allocated or not.
InitOps ==
    /\ ports \in {1..k : k \in 0..MaxPort}
    /\ store = {}
    /\ \E callers \in {{}, {1}} :
          /\ pc = [t \in Tasks |->
                     IF RequestOf(t) \in callers
                     THEN IF t[1] = "record" THEN "none" ELSE "free_enter"
                     ELSE IF t[1] = "record" THEN "idle" ELSE "none"]
          /\ port \in [Requests -> PortUniverse \cup {NoPort}]
          /\ \A r \in Requests : port[r] = NoPort <=> r \notin callers
          /\ hist = [r \in Requests |->
                       IF r \in callers
                       THEN [NoHistory EXCEPT !.frees = 1]
                       ELSE NoHistory]
    /\ lock = NoTask
    /\ used = [t \in Tasks |-> {}]
    /\ exc = [t \in Tasks |-> ""]
    /\ result = [r \in Requests |-> ""]
    /\ stream = [r \in Requests |-> "none"]
    /\ firstPick = <<>>
    /\ lastFree = <<>>
    /\ now = 0
    /\ call = NoCall

\* A task that awaits the lock is granted it.
EnterStep ==
    \/ \E r \in Requests : ReserveEnter(r)
    \/ \E t \in Tasks : FreeEnter(t)

\* The store and the lock answer the task that holds the lock, and the lock,
\* once free, is granted to one of the tasks that await it.
LockFairness ==
    /\ WF_vars(HolderStep)
    /\ WF_vars(EnterStep)

SpecOps == InitOps /\ [][Next]_vars /\ LockFairness

\* ------------------------------------- one record() call, observed in detail

\* Time passes.
Tick ==
    /\ now < MaxTime
    /\ now' = now + 1
    /\ UNCHANGED <<mainVars, call>>

\* Lines 42 and 174-177: record(request) takes the reference time and the
\* window, and awaits the schedule service.
CallRecord ==
    /\ call.pc = "idle"
    /\ \E event \in Events :
          call' = [call EXCEPT !.pc = "get_schedule",
                               !.event = event,
                               !.reference = now,
                               !.window = GetTimeWindow(now)]
    /\ UNCHANGED <<mainVars, now>>

\* Mutant: the expiry is counted from the reference time of the call.
GetTokenExpiryFromReference == call.reference + Timeout

\* Lines 98-101, _get_token_expiry: the clock is read again.
GetTokenExpiry == now + Timeout

\* Lines 61-73, 177-182 and 98-109: the schedule service answers; the schedule
\* and the nearest instance are found and the credentials are made, or
\* InstanceNotFoundError leaves record().
CallResolves ==
    /\ call.pc = "get_schedule"
    /\ \E response \in Responses :
          LET resolved == Resolve(call.event, call.reference, response)
          IN  call' = [call EXCEPT
                  !.pc = IF resolved.error # "" THEN "raised" ELSE "prepared",
                  !.response = response,
                  !.schedule = resolved.schedule,
                  !.instance = resolved.instance,
                  !.error = resolved.error,
                  !.expires_at = IF resolved.error # "" THEN 0 ELSE GetTokenExpiry]
    /\ UNCHANGED <<mainVars, now>>

InitResolve ==
    /\ ports = {}
    /\ store = {}
    /\ InitTasks

NextResolve ==
    \/ Tick
    \/ CallRecord
    \/ CallResolves

SpecResolve == InitResolve /\ [][NextResolve]_vars

\* ------------------------------ the nearest instance, over every instance list

\* Lines 61-73 and 177-180 with an answer of one schedule, that of the event
\* asked for, in any zone and with any list of instances.
CallSelects ==
    /\ call.pc = "get_schedule"
    /\ \E timezone \in TimeZones, instances \in InstanceLists :
          LET response == <<[event |-> [id |-> Str(call.event),
                                        timezone |-> timezone],
                             instances |-> instances]>>
              resolved == Resolve(call.event, call.reference, response)
          IN  call' = [call EXCEPT
                  !.pc = IF resolved.error # "" THEN "raised" ELSE "prepared",
                  !.response = response,
                  !.schedule = resolved.schedule,
                  !.instance = resolved.instance,
                  !.error = resolved.error,
                  !.expires_at = IF resolved.error # "" THEN 0 ELSE GetTokenExpiry]
    /\ UNCHANGED <<mainVars, now>>

NextNearest ==
    \/ Tick
    \/ CallRecord
    \/ CallSelects

SpecNearest == InitResolve /\ [][NextNearest]_vars

\* ------------------------------------------------------------- claims

RecordTasks == {RecordTask(r) : r \in Requests}

\* The request holds its port: its allocation is written, its release is not.
Holding(r) == hist[r].allocated > hist[r].released

\* C1: in every reachable state, whatever the interleaving of record() calls
\* and watchers, the used set in the store is a subset of the configured pool.
C1_UsedWithinPool == store \subseteq ports

\* A watcher is writing its release while another call holds a port and the
\* store is not empty.
C1_Witness ==
    \E r1, r2 \in Requests :
        /\ r1 # r2
        /\ pc[WatchTask(r1)] = "free_set"
        /\ Holding(r2)
        /\ store # {}

\* C2: with an empty store at the start and no release written so far, the
\* allocations written are to pairwise distinct ports, never more than the
\* pool holds, and an allocation fails only when as many ports are allocated
\* as the pool holds; and at any time no two requests hold the same port.
C2_DistinctUntilExhausted ==
    LET Allocated == {r \in Requests : hist[r].allocated > 0}
        Exhausted == {r \in Requests :
                        \/ exc[RecordTask(r)] = "NoPortsAvailableError"
                        \/ result[r] = "NoPortsAvailableError"}
    IN  /\ \A r1, r2 \in Requests :
              (r1 # r2 /\ Holding(r1) /\ Holding(r2)) => port[r1] # port[r2]
        /\ (\A r \in Requests : hist[r].released = 0) =>
              /\ Cardinality({port[r] : r \in Allocated}) = Cardinality(Allocated)
              /\ Cardinality(Allocated) <= Cardinality(ports)
              /\ (Exhausted # {} => Cardinality(Allocated) = Cardinality(ports))

\* With no release written, a pool of N >= 1 ports is allocated to N requests
\* and a further request has failed.
C2_Witness ==
    /\ ports # {}
    /\ \A r \in Requests : hist[r].released = 0
    /\ Cardinality({r \in Requests : Holding(r)}) = Cardinality(ports)
    /\ \E r \in Requests : result[r] = "NoPortsAvailableError"

\* C3: a record() call that ends with an error after it called the runner has
\* written the release of its port, the port is not in the store at the step
\* that ends the call, and the error the caller gets is the runner's.
C3_RollbackBeforeRaise ==
    [][\A r \in Requests :
          (/\ pc[RecordTask(r)] # "raised"
           /\ pc'[RecordTask(r)] = "raised"
           /\ hist[r].runs > 0)
          => /\ result'[r] = "RunnerError"
             /\ hist'[r].released = 1
             /\ port[r] \notin store']_vars

\* A call has ended with the runner's error, and its port is free.
C3_Witness ==
    \E r \in Requests :
        /\ pc[RecordTask(r)] = "raised"
        /\ result[r] = "RunnerError"
        /\ port[r] # NoPort
        /\ port[r] \notin store

\* C4: once the stream of a started recording has ended, normally or with a
\* failure, its watcher eventually has written the release of its port and the
\* port is not in the store (the lock being granted to a task that keeps
\* asking, and the event loop, the store and the lock answering).
C4_WatcherFreesPort ==
    \A r \in Requests :
        (stream[r] \in {"finished", "failed"} /\ hist[r].released = 0)
            ~> (/\ pc[WatchTask(r)] = "free_exit"
                /\ hist[r].released = 1
                /\ port[r] \notin store)

\* The watcher of a failed stream has written the release; the port is free.
C4_Witness ==
    \E r \in Requests :
        /\ stream[r] = "failed"
        /\ pc[WatchTask(r)] = "free_exit"
        /\ hist[r].released = 1
        /\ port[r] \notin store

\* C5: from an empty store, in every reachable state a port is in the used
\* set exactly when some request has written its allocation of that port and
\* the release for that allocation is not yet written.
C5_UsedIsHeld == store = {port[r] : r \in {q \in Requests : Holding(q)}}

\* One request has allocated and released its port, another holds one.
C5_Witness ==
    \E r1, r2 \in Requests :
        /\ hist[r1].allocated = 1
        /\ hist[r1].released = 1
        /\ Holding(r2)
        /\ port[r2] \in store

\* C6: at the step where _reserve_port reads the store, it raises
\* NoPortsAvailableError exactly when pool minus used set is empty; the store
\* is then left as it is, and the call ends with that error having called
\* neither the runner nor _free_port, with no port bound and no watcher.
C6_ExhaustedExactlyWhenEmpty ==
    [][\A r \in Requests :
          /\ (pc[RecordTask(r)] = "reserve_get" /\ pc'[RecordTask(r)] # "reserve_get")
             => /\ (ports \ store = {}) <=> (exc'[RecordTask(r)] = "NoPortsAvailableError")
                /\ (ports \ store = {}) => (store' = store /\ port'[r] = NoPort)
          /\ (exc[RecordTask(r)] = "NoPortsAvailableError" /\ pc'[RecordTask(r)] # pc[RecordTask(r)])
             => /\ store' = store
                /\ pc'[RecordTask(r)] = "raised"
                /\ result'[r] = "NoPortsAvailableError"
          /\ (result'[r] = "NoPortsAvailableError")
             => /\ hist'[r].runs = 0
                /\ hist'[r].frees = 0
                /\ hist'[r].allocated = 0
                /\ hist'[r].released = 0
                /\ port'[r] = NoPort
                /\ stream'[r] = "none"
                /\ pc'[WatchTask(r)] = "none"
                /\ pc'[RecordTask(r)] = "raised"]_vars

\* A call has ended with NoPortsAvailableError while the whole pool is used.
C6_Witness ==
    \E r \in Requests :
        /\ pc[RecordTask(r)] = "raised"
        /\ result[r] = "NoPortsAvailableError"
        /\ ports # {}
        /\ store = ports

\* C7: an allocation that reads the store after a release was written, with
\* no allocation written in between, succeeds; in a pool of one port it pops
\* the released port and writes the used set as it was before the release.
C7_AllocateAfterRelease ==
    [][\A r \in Requests :
          /\ (/\ pc[RecordTask(r)] = "reserve_get"
              /\ pc'[RecordTask(r)] # "reserve_get"
              /\ lastFree # <<>>)
             => /\ pc'[RecordTask(r)] = "reserve_set"
                /\ exc'[RecordTask(r)] = ""
                /\ port'[r] \in ports \ store
                /\ (Cardinality(ports) = 1 => port'[r] = lastFree[1])
          /\ (/\ pc[RecordTask(r)] = "reserve_set"
              /\ pc'[RecordTask(r)] # "reserve_set"
              /\ lastFree # <<>>
              /\ Cardinality(ports) = 1)
             => /\ store' = lastFree[2]
                /\ store' = {lastFree[1]}]_vars

\* In a pool of one port, the port released last is allocated again.
C7_Witness ==
    \E r \in Requests :
        /\ Cardinality(ports) = 1
        /\ pc[RecordTask(r)] = "reserve_exit"
        /\ Holding(r)
        /\ \E q \in Requests : q # r /\ hist[q].released = 1 /\ port[q] = port[r]
        /\ store = ports

\* C8: a record() call that ends with InstanceNotFoundError has never taken
\* the lock, read or written the store, bound a port, called the runner or
\* _free_port, or made a watcher; the step that ends it leaves the store and
\* the lock as they are.
C8_ResolvingTouchesNoPort ==
    [][\A r \in Requests :
          (result'[r] = "InstanceNotFoundError")
          => /\ hist'[r] = NoHistory
             /\ port'[r] = NoPort
             /\ used'[RecordTask(r)] = {}
             /\ lock' # RecordTask(r)
             /\ stream'[r] = "none"
             /\ pc'[WatchTask(r)] = "none"
             /\ pc'[RecordTask(r)] = "raised"
             /\ (result[r] # result'[r] => (store' = store /\ lock' = lock))]_vars

\* A call has ended with InstanceNotFoundError while another holds a port.
C8_Witness ==
    \E r1, r2 \in Requests :
        /\ pc[RecordTask(r1)] = "raised"
        /\ result[r1] = "InstanceNotFoundError"
        /\ Holding(r2)
        /\ store # {}

\* C9: record() resolves to the first schedule of the answer whose event id
\* is the string of the requested id, whatever the other schedules are, and
\* ends with InstanceNotFoundError when no schedule of the answer matches or
\* when that first matching schedule has no instances.
C9_FirstMatchOrNotFound ==
    (call.pc \in {"prepared", "raised"}) =>
        LET matching == {i \in 1..Len(call.response) :
                            call.response[i].event.id = Str(call.event)}
        IN  IF matching = {}
            THEN call.pc = "raised" /\ call.error = "InstanceNotFoundError"
            ELSE LET first == CHOOSE i \in matching : \A j \in matching : i <= j
                     instances == call.response[first].instances
                 IN  IF instances = <<>>
                     THEN call.pc = "raised" /\ call.error = "InstanceNotFoundError"
                     ELSE /\ call.pc = "prepared"
                          /\ call.error = ""
                          /\ call.schedule = call.response[first]
                          /\ \E k \in 1..Len(instances) : call.instance = instances[k]

\* The answer holds two different schedules of the requested event, and the
\* call is resolved to the first.
C9_Witness ==
    /\ call.pc = "prepared"
    /\ Len(call.response) = 2
    /\ call.response[1].event.id = Str(call.event)
    /\ call.response[2].event.id = Str(call.event)
    /\ call.response[1] # call.response[2]
    /\ call.schedule = call.response[1]

\* C10: the port popped by _reserve_port is a function of the pool and the
\* used set read (an allocation that reads the used set the first allocation
\* read pops the port the first allocation popped), and the used set with the
\* port is written before the lock is left.
C10_DeterministicPick ==
    [][\A r \in Requests :
          /\ (/\ pc[RecordTask(r)] = "reserve_get"
              /\ pc'[RecordTask(r)] = "reserve_set"
              /\ firstPick # <<>>
              /\ store = firstPick[1])
             => port'[r] = firstPick[2]
          /\ (pc[RecordTask(r)] = "reserve_exit" /\ pc'[RecordTask(r)] = "run")
             => /\ lock = RecordTask(r)
                /\ port[r] \in store
                /\ hist[r].allocated = 1]_vars

\* The part of C10 that holds: the write precedes leaving the lock.
WrittenBeforeUnlock ==
    [][\A r \in Requests :
          (pc[RecordTask(r)] = "reserve_exit" /\ pc'[RecordTask(r)] = "run")
             => /\ lock = RecordTask(r)
                /\ port[r] \in store
                /\ hist[r].allocated = 1]_vars

\* used.remove(port) never raises KeyError in record() or in a watcher.
NoKeyError == \A t \in Tasks : exc[t] # "KeyError"

\* C11: the outcome of record() is fixed by resolving, preparing and starting
\* alone. record() returns its Response in the very step in which the runner
\* has started, while the stream still runs and its watcher only begins to
\* wait; an outcome, once given, never changes, so neither a failure of
\* stream.wait() nor the end of the watcher's _free_port reaches the caller.
C11_OutcomeBeforeWait ==
    [][\A r \in Requests :
          /\ result[r] # "" => result'[r] = result[r]
          /\ (pc[RecordTask(r)] = "run" /\ pc'[RecordTask(r)] = "returned")
                => /\ result'[r] = "Response"
                   /\ stream'[r] = "running"
                   /\ pc'[WatchTask(r)] = "wait"
          /\ (result[r] = "" /\ result'[r] = "Response")
                => (pc[RecordTask(r)] = "run" /\ stream[r] = "none")
          /\ (result[r] = "" /\ result'[r] # "")
                => /\ pc[WatchTask(r)] = "none"
                   /\ pc'[RecordTask(r)] \in {"returned", "raised"}
          /\ result'[r] # "StreamError"]_vars

\* A caller holds its Response although the stream failed afterwards and the
\* watcher ended with that failure.
C11_Witness ==
    \E r \in Requests :
        /\ result[r] = "Response"
        /\ stream[r] = "failed"
        /\ pc[WatchTask(r)] = "done"
        /\ exc[WatchTask(r)] = "StreamError"

\* The positions of a task between entering and leaving `async with self._lock`.
InCriticalSection(t) ==
    pc[t] \in {"reserve_get", "reserve_set", "reserve_exit",
               "free_get", "free_set", "free_exit"}

\* C12: every get() and every set() of the store made by _reserve_port or
\* _free_port is made by the task that holds the lock, and the get() and the
\* set() of one call lie in one critical section: between them no other task
\* reads or writes the store, so at its set() the set a task read is still the
\* store's content and no available set is computed from stale used ports.
C12_StoreUnderLock ==
    [][/\ \A t \in Tasks :
             /\ InCriticalSection(t) => lock = t
             /\ pc[t] = "reserve_set" => used[t] = store
             /\ pc[t] = "free_set"
                   => used[t] = store \ {port[RequestOf(t)]}
       /\ store' # store
             => /\ lock # NoTask
                /\ pc[lock] \in {"reserve_set", "free_set"}
                /\ pc'[lock] # pc[lock]
                /\ lock' = lock
       /\ \A r \in Requests :
             hist'[r].reads # hist[r].reads
                => /\ lock \in {RecordTask(r), WatchTask(r)}
                   /\ pc[lock] \in {"reserve_get", "free_get"}
                   /\ lock' = lock]_vars

\* A task that allocates is about to write the store, having read it under
\* the lock, while a task that releases awaits the lock.
C12_Witness ==
    \E t, u \in Tasks :
        /\ pc[t] = "reserve_set"
        /\ lock = t
        /\ pc[u] = "free_enter"

\* The positions of a task inside _free_port(port).
Freeing(t) == pc[t] \in {"free_enter", "free_get", "free_set", "free_exit"}

\* C13: _free_port is called at most once for each port a call reserved: the
\* handler of record() and the watcher never both call it for one request
\* (the handler runs only when no watcher was started), each call removes
\* its port at most once, and while a task is about to remove its port no
\* other request holds that port, so a port given to another request in the
\* meantime is never taken from the store.
C13_ReleasedAtMostOnce ==
    \A r \in Requests :
        /\ hist[r].frees <= 1
        /\ hist[r].frees <= hist[r].allocated
        /\ hist[r].released <= hist[r].frees
        /\ Freeing(RecordTask(r)) => pc[WatchTask(r)] = "none"
        /\ pc[WatchTask(r)] # "none" => pc[RecordTask(r)] = "returned"
        /\ \A t \in {RecordTask(r), WatchTask(r)} :
              (Freeing(t) /\ hist[r].released = 0)
                 => \A q \in Requests \ {r} :
                       Holding(q) => port[q] # port[r]

\* A request has released its port, once, and the port now belongs to another
\* request whose stream is running.
C13_Witness ==
    \E r, q \in Requests :
        /\ r # q
        /\ hist[r].frees = 1
        /\ hist[r].released = 1
        /\ Holding(q)
        /\ port[q] = port[r]
        /\ stream[q] = "running"

\* The stream of request r was started and its wait() has not returned to
\* the watcher.
Unterminated(r) == stream[r] # "none" /\ pc[WatchTask(r)] = "wait"

\* C14: from the start of a stream until its wait() returns, the stream's
\* port is in the store and belongs to its request, whatever the other
\* requests do; a stream that never ends keeps its port, as a running stream
\* always has an unterminated wait(); two streams that are started and
\* unterminated never have the same port.
C14_PortKeptWhileStreaming ==
    /\ \A r \in Requests :
          /\ stream[r] = "running" => Unterminated(r)
          /\ Unterminated(r)
                => /\ port[r] \in store
                   /\ Holding(r)
                   /\ hist[r].frees = 0
    /\ \A r, q \in Requests :
          (r # q /\ Unterminated(r) /\ Unterminated(q)) => port[r] # port[q]

\* Two streams run at once, on different ports, and the pool is exhausted.
C14_Witness ==
    \E r, q \in Requests :
        /\ r # q
        /\ stream[r] = "running"
        /\ stream[q] = "running"
        /\ port[r] # port[q]
        /\ Available(store) = {}

\* A task that awaits the lock, to allocate or to release.
Pending(t) == pc[t] \in {"reserve_enter", "free_enter"}

\* C15: the lock is left on every way out of _reserve_port and _free_port,
\* NoPortsAvailableError and a KeyError raised inside the block included:
\* only a task inside the block holds the lock, the step that leaves the
\* block frees it, and so a task that awaits the lock is eventually granted
\* it.
C15_LockAlwaysLeft ==
    /\ [](\A t \in Tasks : lock = t => InCriticalSection(t))
    /\ [][\A t \in Tasks :
             (pc[t] \in {"reserve_exit", "free_exit"} /\ pc'[t] # pc[t])
                => (lock = t /\ lock' = NoTask)]_vars
    /\ \A t \in Tasks : Pending(t) ~> (lock = t)

\* A task awaits the lock while the call that holds it is about to leave the
\* block with KeyError.
C15_Witness ==
    \E t, u \in Tasks :
        /\ Pending(t)
        /\ lock = u
        /\ pc[u] = "free_exit"
        /\ exc[u] = "KeyError"

\* C16: _free_port(port) with a port that is not in the store fails: from
\* its get() it goes with KeyError straight to the end of the block, the
\* store keeps its content from that get() until the task has left the
\* block, no removal is recorded for the call, and leaving the block frees
\* the lock.
C16_FreeOfUnusedPortFails ==
    [][\A t \in Tasks :
          /\ (pc[t] = "free_get" /\ pc'[t] # "free_get"
                 /\ port[RequestOf(t)] \notin store)
                => /\ exc'[t] = "KeyError"
                   /\ pc'[t] = "free_exit"
                   /\ store' = store
                   /\ lock' = t
          /\ (pc[t] = "free_exit" /\ exc[t] = "KeyError")
                => /\ store' = store
                   /\ hist'[RequestOf(t)].released
                         = hist[RequestOf(t)].released
                   /\ pc'[t] # pc[t]
                         => /\ lock' = NoTask
                            /\ pc'[t] \in {"raised", "done"}
                            /\ t[1] = "record"
                                  => result'[RequestOf(t)] = "KeyError"]_vars

\* A call of _free_port for a port that was not in the store has ended: the
\* lock is free again and the store still lacks the port.
C16_Witness ==
    \E t \in Tasks :
        /\ exc[t] = "KeyError"
        /\ pc[t] = "done"
        /\ lock = NoTask
        /\ port[RequestOf(t)] \notin store
        /\ hist[RequestOf(t)].released = 0

\* The distance of the k-th instance of the schedule found by the call: its
\* start, read as wall-clock time of the event's zone and taken to UTC,
\* against the reference time.
Distance(k) ==
    LET start == call.schedule.instances[k].start
    IN  Abs((start - UtcOffset(call.schedule.event.timezone, start))
            - call.reference)

\* C17: for a schedule with at least one instance the call goes on with an
\* instance of the list whose distance to the reference time is the least
\* of the list, and with the first such instance in list order; for a
\* schedule without instances it raises InstanceNotFoundError.
C17_NearestFirstOrNotFound ==
    call.pc \in {"prepared", "raised"}
       => IF call.schedule.instances = <<>>
          THEN /\ call.pc = "raised"
               /\ call.error = "InstanceNotFoundError"
               /\ call.instance = NoInstance
          ELSE /\ call.pc = "prepared"
               /\ \E k \in DOMAIN call.schedule.instances :
                     /\ call.instance = call.schedule.instances[k]
                     /\ \A j \in DOMAIN call.schedule.instances :
                           /\ Distance(k) <= Distance(j)
                           /\ j < k => Distance(k) < Distance(j)

\* The call chose the first of two instances at the same least distance,
\* which start at different wall-clock times around the change of the clocks,
\* and passed over an earlier instance that is farther away.
C17_Witness ==
    /\ call.pc = "prepared"
    /\ call.schedule.event.timezone = "Europe/Warsaw"
    /\ \E i, k, j \in DOMAIN call.schedule.instances :
          /\ i < k
          /\ k < j
          /\ call.instance = call.schedule.instances[k]
          /\ Distance(i) > Distance(k)
          /\ Distance(j) = Distance(k)
          /\ call.schedule.instances[j].start
                # call.schedule.instances[k].start

\* C18 as stated: the expiry of the credentials of a call is the reference
\* time of the call plus the timeout.
C18_ExpiryFromReference ==
    call.pc = "prepared" => call.expires_at = call.reference + Timeout

\* C18, amended: the expiry of the credentials of a call is the time at which
\* the credentials are made, after the schedule service has answered, plus
\* the timeout; it is never before the reference time plus the timeout.
C18_ExpiryFromIssuance ==
    [][(call.pc = "get_schedule" /\ call'.pc = "prepared")
          => /\ call'.expires_at = now + Timeout
             /\ call'.expires_at >= call.reference + Timeout
             /\ call'.reference = call.reference]_vars

\* Time passed while the schedule service was awaited, and the credentials
\* expire later than the reference time plus the timeout.
C18_Witness ==
    /\ call.pc = "prepared"
    /\ call.expires_at > call.reference + Timeout
    /\ call.expires_at <= now + Timeout

\* C19: the window of a call made at reference time T is the pair
\* (T - Window, T + Window), and T lies between its two ends.
C19_WindowAroundReference ==
    call.pc # "idle"
       => /\ call.window[1] = call.reference - Window
          /\ call.window[2] = call.reference + Window
          /\ call.window[1] <= call.reference
          /\ call.reference <= call.window[2]
          /\ call.window[2] - call.window[1] = Window + Window
          /\ call.reference <= now

\* A call made after the clock had advanced has a window that begins before
\* its reference time and ends after it.
C19_Witness ==
    /\ call.pc = "get_schedule"
    /\ call.reference > 0
    /\ call.window[1] < call.reference
    /\ call.reference < call.window[2]

====
